---- MODULE Spec2Model ----
(***************************************************************************)
(* A model of the SpaceTraders client: the config store (src/utils.rs),    *)
(* the response models and their serde decoding (src/api/data.rs) and the  *)
(* API client (src/api/client.rs).                                         *)
(*                                                                         *)
(* A string is a sequence of characters; a character is a one-character    *)
(* TLA+ string, or a name for a character that is not printable ASCII      *)
(* ("LF", "TAB", "U0001", "U00E9").                                        *)
(***************************************************************************)
EXTENDS Integers, Sequences, FiniteSets, TLC

VARIABLES file, client, sent, last

vars == <<file, client, sent, last>>

(***************************************************************************)
(* JSON values.  Every value is a record of the same four fields, so that  *)
(* values of different kinds can be compared:                              *)
(*   t    "null" | "bool" | "int" | "float" | "str" | "arr" | "obj"         *)
(*   s    the characters of a "str"                                        *)
(*   n    the number of an "int" (a "bool": 1 for true, 0 for false)       *)
(*   kids the members of an "obj", <<key, value>> in document order, or    *)
(*        the elements of an "arr", <<"", value>>                          *)
(***************************************************************************)
JNull == [t |-> "null", s |-> <<>>, n |-> 0, kids |-> <<>>]

JBool(b) == [t |-> "bool", s |-> <<>>, n |-> IF b THEN 1 ELSE 0, kids |-> <<>>]

JInt(i) == [t |-> "int", s |-> <<>>, n |-> i, kids |-> <<>>]

JFloat == [t |-> "float", s |-> <<>>, n |-> 0, kids |-> <<>>]

JStr(str) == [t |-> "str", s |-> str, n |-> 0, kids |-> <<>>]

JArr(elems) ==
    [t |-> "arr", s |-> <<>>, n |-> 0,
     kids |-> [i \in 1..Len(elems) |-> <<"", elems[i]>>]]

JObj(members) == [t |-> "obj", s |-> <<>>, n |-> 0, kids |-> members]

(***************************************************************************)
(* serde_json's text form.  format_escaped_str writes a string between     *)
(* quotes with '"' and '\' and the control characters escaped and every    *)
(* other character as it is; the parser undoes the escapes and rejects a   *)
(* raw control character inside a string.                                  *)
(***************************************************************************)
QUOTE == "\""

BSL == "\\"

ControlChars == {"LF", "TAB", "CR", "BS", "FF", "U0001"}

Whitespace == {" ", "LF", "TAB", "CR"}

Digits == {"0", "1", "2", "3", "4", "5", "6", "7", "8", "9"}

HexDigits == Digits \cup {"a", "b", "c", "d", "e", "f", "A", "B", "C", "D", "E", "F"}

EscapeCharMissing(c) == <<c>>

EscapeChar(c) ==
    CASE c = QUOTE   -> <<BSL, QUOTE>>
      [] c = BSL     -> <<BSL, BSL>>
      [] c = "BS"    -> <<BSL, "b">>
      [] c = "FF"    -> <<BSL, "f">>
      [] c = "LF"    -> <<BSL, "n">>
      [] c = "CR"    -> <<BSL, "r">>
      [] c = "TAB"   -> <<BSL, "t">>
      [] c = "U0001" -> <<BSL, "u", "0", "0", "0", "1">>
      [] OTHER       -> <<c>>

RECURSIVE EscapeStr(_)
EscapeStr(str) ==
    IF str = <<>> THEN <<>>
    ELSE EscapeChar(Head(str)) \o EscapeStr(Tail(str))

\* The character a \uXXXX escape stands for.  A code point that has no name
\* in this model is "UXXXX": some other character.
UnicodeOf(hex) ==
    CASE hex = <<"0", "0", "0", "1">> -> "U0001"
      [] hex = <<"0", "0", "0", "8">> -> "BS"
      [] hex = <<"0", "0", "0", "9">> -> "TAB"
      [] hex \in {<<"0", "0", "0", "a">>, <<"0", "0", "0", "A">>} -> "LF"
      [] hex \in {<<"0", "0", "0", "c">>, <<"0", "0", "0", "C">>} -> "FF"
      [] hex \in {<<"0", "0", "0", "d">>, <<"0", "0", "0", "D">>} -> "CR"
      [] hex = <<"0", "0", "2", "0">> -> " "
      [] hex = <<"0", "0", "2", "2">> -> QUOTE
      [] hex \in {<<"0", "0", "5", "c">>, <<"0", "0", "5", "C">>} -> BSL
      [] hex = <<"0", "0", "6", "1">> -> "a"
      [] hex \in {<<"0", "0", "e", "9">>, <<"0", "0", "E", "9">>} -> "U00E9"
      [] OTHER -> "UXXXX"

Fail == [ok |-> FALSE, v |-> JNull, i |-> 0]

Done(val, next) == [ok |-> TRUE, v |-> val, i |-> next]

RECURSIVE SkipWs(_, _)
SkipWs(s, i) ==
    IF i <= Len(s) /\ s[i] \in Whitespace THEN SkipWs(s, i + 1) ELSE i

\* The characters of a string whose opening quote has been read; j is the
\* next character, acc the characters decoded so far.
RECURSIVE ParseChars(_, _, _)
ParseChars(s, j, acc) ==
    IF j > Len(s) THEN Fail
    ELSE IF s[j] = QUOTE THEN Done(JStr(acc), j + 1)
    ELSE IF s[j] \in ControlChars THEN Fail
    ELSE IF s[j] # BSL THEN ParseChars(s, j + 1, Append(acc, s[j]))
    ELSE IF j + 1 > Len(s) THEN Fail
    ELSE LET e == s[j + 1] IN
         CASE e = QUOTE -> ParseChars(s, j + 2, Append(acc, QUOTE))
           [] e = BSL   -> ParseChars(s, j + 2, Append(acc, BSL))
           [] e = "/"   -> ParseChars(s, j + 2, Append(acc, "/"))
           [] e = "b"   -> ParseChars(s, j + 2, Append(acc, "BS"))
           [] e = "f"   -> ParseChars(s, j + 2, Append(acc, "FF"))
           [] e = "n"   -> ParseChars(s, j + 2, Append(acc, "LF"))
           [] e = "r"   -> ParseChars(s, j + 2, Append(acc, "CR"))
           [] e = "t"   -> ParseChars(s, j + 2, Append(acc, "TAB"))
           [] e = "u"   ->
                IF j + 5 <= Len(s) /\ \A k \in (j + 2)..(j + 5) : s[k] \in HexDigits
                THEN ParseChars(s, j + 6, Append(acc, UnicodeOf(SubSeq(s, j + 2, j + 5))))
                ELSE Fail
           [] OTHER     -> Fail

RECURSIVE DigitsEnd(_, _)
DigitsEnd(s, i) ==
    IF i <= Len(s) /\ s[i] \in Digits THEN DigitsEnd(s, i + 1) ELSE i

DigitVal(c) ==
    CASE c = "0" -> 0 [] c = "1" -> 1 [] c = "2" -> 2 [] c = "3" -> 3
      [] c = "4" -> 4 [] c = "5" -> 5 [] c = "6" -> 6 [] c = "7" -> 7
      [] c = "8" -> 8 [] c = "9" -> 9

RECURSIVE DigitsVal(_, _, _)
DigitsVal(s, i, j) ==
    IF j < i THEN 0 ELSE 10 * DigitsVal(s, i, j - 1) + DigitVal(s[j])

\* A number starting at s[i]: -? (0 | [1-9][0-9]*) (. [0-9]+)? ([eE] [+-]? [0-9]+)?
ParseNumber(s, i) ==
    LET neg  == s[i] = "-"
        a    == IF neg THEN i + 1 ELSE i
        b    == DigitsEnd(s, a)
        intOk == b > a /\ (s[a] = "0" => b = a + 1)
        hasFrac == b <= Len(s) /\ s[b] = "."
        c    == IF hasFrac THEN DigitsEnd(s, b + 1) ELSE b
        fracOk == hasFrac => c > b + 1
        hasExp == c <= Len(s) /\ s[c] \in {"e", "E"}
        d    == IF hasExp /\ c + 1 <= Len(s) /\ s[c + 1] \in {"+", "-"} THEN c + 2 ELSE c + 1
        e    == IF hasExp THEN DigitsEnd(s, d) ELSE c
        expOk == hasExp => e > d
        val  == DigitsVal(s, a, b - 1)
    IN  IF ~intOk \/ ~fracOk \/ ~expOk THEN Fail
        ELSE IF hasFrac \/ hasExp THEN Done(JFloat, e)
        ELSE Done(JInt(IF neg THEN 0 - val ELSE val), e)

Literal(s, i, word) ==
    i + Len(word) - 1 <= Len(s) /\ SubSeq(s, i, i + Len(word) - 1) = word

RECURSIVE ParseValue(_, _)
RECURSIVE ParseElems(_, _, _)
RECURSIVE ParseMembers(_, _, _)

\* The elements of an array after "[" or ",": i is where the next value starts.
ParseElems(s, i, acc) ==
    LET r == ParseValue(s, i)
        j == SkipWs(s, r.i)
    IN  IF ~r.ok \/ j > Len(s) THEN Fail
        ELSE IF s[j] = "]" THEN Done(JArr(Append(acc, r.v)), j + 1)
        ELSE IF s[j] = "," THEN ParseElems(s, j + 1, Append(acc, r.v))
        ELSE Fail

\* The members of an object after "{" or ",": i is where the next key starts.
ParseMembers(s, i, acc) ==
    LET k0 == SkipWs(s, i)
        k  == IF k0 <= Len(s) /\ s[k0] = QUOTE THEN ParseChars(s, k0 + 1, <<>>) ELSE Fail
        c  == SkipWs(s, k.i)
        r  == IF k.ok /\ c <= Len(s) /\ s[c] = ":" THEN ParseValue(s, c + 1) ELSE Fail
        j  == SkipWs(s, r.i)
        members == Append(acc, <<k.v.s, r.v>>)
    IN  IF ~r.ok \/ j > Len(s) THEN Fail
        ELSE IF s[j] = "}" THEN Done(JObj(members), j + 1)
        ELSE IF s[j] = "," THEN ParseMembers(s, j + 1, members)
        ELSE Fail

ParseValue(s, i0) ==
    LET i == SkipWs(s, i0) IN
    IF i > Len(s) THEN Fail
    ELSE CASE s[i] = QUOTE -> ParseChars(s, i + 1, <<>>)
           [] s[i] = "["   ->
                LET j == SkipWs(s, i + 1) IN
                IF j <= Len(s) /\ s[j] = "]" THEN Done(JArr(<<>>), j + 1)
                ELSE ParseElems(s, i + 1, <<>>)
           [] s[i] = "{"   ->
                LET j == SkipWs(s, i + 1) IN
                IF j <= Len(s) /\ s[j] = "}" THEN Done(JObj(<<>>), j + 1)
                ELSE ParseMembers(s, i + 1, <<>>)
           [] s[i] = "-" \/ s[i] \in Digits -> ParseNumber(s, i)
           [] Literal(s, i, <<"n", "u", "l", "l">>) -> Done(JNull, i + 4)
           [] Literal(s, i, <<"t", "r", "u", "e">>) -> Done(JBool(TRUE), i + 4)
           [] Literal(s, i, <<"f", "a", "l", "s", "e">>) -> Done(JBool(FALSE), i + 5)
           [] OTHER -> Fail

\* serde_json::from_str: one value, with nothing but whitespace after it.
ParseJson(s) ==
    LET r == ParseValue(s, 1) IN
    IF r.ok /\ SkipWs(s, r.i) = Len(s) + 1 THEN r ELSE Fail

(***************************************************************************)
(* The response models of src/api/data.rs and serde's derived decoding.    *)
(* A type is a tuple: <<"string">>, <<"bool">>, <<"int", width>>,          *)
(* <<"option", T>>, <<"vec", T>>, <<"map_string">> (HashMap<String,        *)
(* String>), <<"map_value">> (HashMap<String, serde_json::Value>),         *)
(* <<"factions">> and <<"struct", name>>.  A struct is its fields in       *)
(* declaration order, each with its JSON name (after rename_all).          *)
(***************************************************************************)
TString == <<"string">>

TBool == <<"bool">>

TInt(width) == <<"int", width>>

TOption(ty) == <<"option", ty>>

TVec(ty) == <<"vec", ty>>

TStruct(name) == <<"struct", name>>

F(name, ty) == [name |-> name, ty |-> ty, flatten |-> FALSE]

Flat(name, ty) == [name |-> name, ty |-> ty, flatten |-> TRUE]

ComponentFields == <<Flat("component_info", TStruct("ComponentInfo"))>>

Fields(struct) ==
    CASE struct = "ConfigData" -> <<F("token", TString)>>
      [] struct = "ErrorResponse" ->
            <<F("message", TString), F("code", TInt("i32")),
              F("data", TOption(<<"map_value">>))>>
      [] struct = "RegistrationData" ->
            <<F("token", TString), F("agent", TStruct("AgentData")),
              F("contract", TStruct("ContractData")),
              F("faction", TStruct("FactionData")), F("ship", TStruct("ShipData"))>>
      [] struct = "AgentData" ->
            <<F("accountId", TString), F("symbol", TString),
              F("headquarters", TString), F("credits", TInt("i64"))>>
      [] struct = "ContractData" ->
            <<F("id", TString), F("factionSymbol", TString), F("type", TString),
              F("terms", TStruct("ContractTerms")), F("accepted", TBool),
              F("fulfilled", TBool), F("expiration", TString)>>
      [] struct = "ContractTerms" ->
            <<F("deadline", TString), F("payment", TStruct("PaymentInfo")),
              F("deliver", TVec(TStruct("DeliveryInfo")))>>
      [] struct = "PaymentInfo" ->
            <<F("onAccepted", TInt("i64")), F("onFulfilled", TInt("i64"))>>
      [] struct = "DeliveryInfo" ->
            <<F("tradeSymbol", TString), F("destinationSymbol", TString),
              F("unitsRequired", TInt("i64")), F("unitsFulfilled", TInt("i64"))>>
      [] struct = "FactionData" ->
            <<F("symbol", <<"factions">>), F("name", TString),
              F("description", TString), F("headquarters", TString),
              F("traits", TVec(TStruct("TraitData")))>>
      [] struct = "TraitData" ->
            <<F("symbol", TString), F("name", TString), F("description", TString)>>
      [] struct = "ShipData" ->
            <<F("symbol", TString), F("nav", TStruct("NavInfo")),
              F("crew", TStruct("CrewInfo")), F("fuel", TStruct("FuelInfo")),
              F("frame", TStruct("FrameInfo")), F("reactor", TStruct("ReactorInfo")),
              F("engine", TStruct("EngineInfo")),
              F("modules", TVec(TStruct("ModuleInfo"))),
              F("mounts", TVec(TStruct("MountInfo"))),
              F("registration", TStruct("ShipRegistration")),
              F("cargo", TStruct("CargoInfo"))>>
      [] struct = "NavInfo" ->
            <<F("systemSymbol", TString), F("waypointSymbol", TString),
              F("route", TStruct("Route")), F("status", TString),
              F("flightMode", TString)>>
      [] struct = "Route" ->
            <<F("departure", TStruct("LocationData")),
              F("destination", TStruct("LocationData"))>>
      [] struct = "CrewInfo" ->
            <<F("current", TInt("u16")), F("capacity", TInt("u16")),
              F("required", TInt("u16")), F("rotation", TString),
              F("morale", TInt("u8")), F("wages", TInt("u32"))>>
      [] struct = "FuelInfo" ->
            <<F("current", TInt("u32")), F("capacity", TInt("u32")),
              F("consumed", TStruct("ConsumedFuel"))>>
      [] struct = "ConsumedFuel" ->
            <<F("amount", TInt("u32")), F("timestamp", TString)>>
      [] struct = "ComponentInfo" ->
            <<F("symbol", TString), F("name", TString), F("description", TString),
              F("condition", TOption(TInt("u8"))),
              F("requirements", TStruct("ComponentRequirements"))>>
      [] struct = "ComponentRequirements" ->
            <<F("crew", TOption(TInt("u8"))), F("power", TOption(TInt("u8"))),
              F("slots", TOption(TInt("u8")))>>
      [] struct = "FrameInfo" ->
            ComponentFields \o
            <<F("moduleSlots", TInt("u8")), F("mountingPoints", TInt("u8")),
              F("fuelCapacity", TInt("u16"))>>
      [] struct = "ReactorInfo" ->
            ComponentFields \o <<F("powerOutput", TInt("u8"))>>
      [] struct = "EngineInfo" ->
            ComponentFields \o <<F("speed", TInt("u16"))>>
      [] struct = "ModuleInfo" ->
            ComponentFields \o <<F("capacity", TOption(TInt("u16")))>>
      [] struct = "MountInfo" ->
            ComponentFields \o
            <<F("strength", TInt("u8")), F("deposits", TOption(TVec(TString)))>>
      [] struct = "ShipRegistration" ->
            <<F("name", TString), F("factionSymbol", <<"factions">>),
              F("role", TString)>>
      [] struct = "CargoInfo" ->
            <<F("capacity", TInt("u32")), F("units", TInt("u32")),
              F("inventory", TVec(TStruct("CargoItem")))>>
      [] struct = "CargoItem" ->
            <<F("symbol", TString), F("name", TString), F("description", TString),
              F("units", TInt("u16"))>>
      [] struct = "Coords" ->
            <<F("x", TInt("i32")), F("y", TInt("i32"))>>
      [] struct = "LocationData" ->
            <<F("systemSymbol", TString), F("symbol", TString), F("type", TString),
              Flat("coords", TStruct("Coords")),
              F("orbitals", TOption(TVec(<<"map_string">>))),
              F("traits", TOption(TVec(TStruct("TraitData")))),
              F("chart", TOption(<<"map_string">>)),
              F("faction", TOption(<<"map_string">>))>>

\* The variants of Factions.
Factions == {"Cosmic", "Void", "Galactic", "Quantum", "Dominion", "Astro", "Corsairs"}

\* Display for Factions writes the variant's Debug name.
FactionToString(f) ==
    CASE f = "Cosmic"   -> <<"C", "o", "s", "m", "i", "c">>
      [] f = "Void"     -> <<"V", "o", "i", "d">>
      [] f = "Galactic" -> <<"G", "a", "l", "a", "c", "t", "i", "c">>
      [] f = "Quantum"  -> <<"Q", "u", "a", "n", "t", "u", "m">>
      [] f = "Dominion" -> <<"D", "o", "m", "i", "n", "i", "o", "n">>
      [] f = "Astro"    -> <<"A", "s", "t", "r", "o">>
      [] f = "Corsairs" -> <<"C", "o", "r", "s", "a", "i", "r", "s">>

UpperChar(c) ==
    CASE c = "a" -> "A" [] c = "c" -> "C" [] c = "d" -> "D" [] c = "i" -> "I"
      [] c = "l" -> "L" [] c = "m" -> "M" [] c = "n" -> "N" [] c = "o" -> "O"
      [] c = "r" -> "R" [] c = "s" -> "S" [] c = "t" -> "T" [] c = "u" -> "U"
      [] OTHER -> c

ToUppercase(str) == [i \in 1..Len(str) |-> UpperChar(str[i])]

\* Factions, rename_all = "UPPERCASE": the names serde accepts for a variant,
\* as the characters of a JSON string and as the key of a JSON object.
FactionNames == {ToUppercase(FactionToString(f)) : f \in Factions}

FactionKey(f) ==
    CASE f = "Cosmic"   -> "COSMIC"
      [] f = "Void"     -> "VOID"
      [] f = "Galactic" -> "GALACTIC"
      [] f = "Quantum"  -> "QUANTUM"
      [] f = "Dominion" -> "DOMINION"
      [] f = "Astro"    -> "ASTRO"
      [] f = "Corsairs" -> "CORSAIRS"

\* The integers of each width, as far as the model's integers reach (they all
\* lie in i32, so in i64 too).
InWidth(width, n) ==
    CASE width = "u8"  -> 0 <= n /\ n <= 255
      [] width = "u16" -> 0 <= n /\ n <= 65535
      [] width = "u32" -> 0 <= n
      [] width = "i32" -> TRUE
      [] width = "i64" -> TRUE

No == [ok |-> FALSE, v |-> JNull]

Yes(val) == [ok |-> TRUE, v |-> val]

HasFlatten(struct) == \E i \in 1..Len(Fields(struct)) : Fields(struct)[i].flatten

KeyAt(kids, key) == {i \in 1..Len(kids) : kids[i][1] = key}

\* A map keeps the last value of a key that comes twice.
LastOfKey(kids) ==
    LET keep == {i \in 1..Len(kids) :
                    \A j \in (i + 1)..Len(kids) : kids[j][1] # kids[i][1]}
        RECURSIVE Pick(_)
        Pick(i) == IF i > Len(kids) THEN <<>>
                   ELSE IF i \in keep THEN <<kids[i]>> \o Pick(i + 1)
                   ELSE Pick(i + 1)
    IN  Pick(1)

RECURSIVE DecodeT(_, _)
RECURSIVE DecodeFromMap(_, _)
RECURSIVE DecodeField(_, _)
RECURSIVE DecodeFields(_, _, _, _)
RECURSIVE DecodeElems(_, _, _, _)
RECURSIVE DecodeVec(_, _, _, _)

\* One field of a struct against the members of a JSON object (visit_map): a
\* key that comes twice is an error (duplicate field), a missing Option is
\* None, any other missing field is an error.  A flattened field takes its
\* own fields from the same members.
DecodeField(f, kids) ==
    IF f.flatten THEN DecodeFromMap(f.ty[2], kids)
    ELSE LET at == KeyAt(kids, f.name) IN
         IF Cardinality(at) > 1 THEN No
         ELSE IF at = {} THEN (IF f.ty[1] = "option" THEN Yes(JNull) ELSE No)
         ELSE DecodeT(f.ty, kids[CHOOSE i \in at : TRUE][2])

\* The fields fs[i..] of a struct against the members of an object; acc is
\* the fields decoded so far.
DecodeFields(fs, kids, i, acc) ==
    IF i > Len(fs) THEN Yes(JObj(acc))
    ELSE LET d == DecodeField(fs[i], kids) IN
         IF ~d.ok THEN No
         ELSE DecodeFields(fs, kids, i + 1, Append(acc, <<fs[i].name, d.v>>))

\* A struct from the members of an object; unknown keys are ignored.
DecodeFromMap(struct, kids) == DecodeFields(Fields(struct), kids, 1, <<>>)

\* The fields fs[i..] of a struct against the elements kids[i..] of an array.
DecodeElems(fs, kids, i, acc) ==
    IF i > Len(fs) THEN Yes(JObj(acc))
    ELSE LET d == DecodeT(fs[i].ty, kids[i][2]) IN
         IF ~d.ok THEN No
         ELSE DecodeElems(fs, kids, i + 1, Append(acc, <<fs[i].name, d.v>>))

\* A struct from the elements of an array (visit_seq): one element per field,
\* in declaration order, none missing and none left over.
DecodeFromSeq(struct, kids) ==
    IF Len(kids) = Len(Fields(struct))
    THEN DecodeElems(Fields(struct), kids, 1, <<>>)
    ELSE No

\* The elements kids[i..] of an array, each of type ty.
DecodeVec(ty, kids, i, acc) ==
    IF i > Len(kids) THEN Yes(JArr(acc))
    ELSE LET d == DecodeT(ty, kids[i][2]) IN
         IF ~d.ok THEN No
         ELSE DecodeVec(ty, kids, i + 1, Append(acc, d.v))

DecodeT(ty, j) ==
    CASE ty[1] = "string" -> IF j.t = "str" THEN Yes(j) ELSE No
      [] ty[1] = "bool"   -> IF j.t = "bool" THEN Yes(j) ELSE No
      [] ty[1] = "int"    -> IF j.t = "int" /\ InWidth(ty[2], j.n) THEN Yes(j) ELSE No
      [] ty[1] = "option" -> IF j.t = "null" THEN Yes(JNull) ELSE DecodeT(ty[2], j)
      [] ty[1] = "vec"    ->
            IF j.t = "arr" THEN DecodeVec(ty[2], j.kids, 1, <<>>) ELSE No
      [] ty[1] = "map_string" ->
            IF j.t = "obj" /\ \A i \in 1..Len(j.kids) : j.kids[i][2].t = "str"
            THEN Yes(JObj(LastOfKey(j.kids)))
            ELSE No
      [] ty[1] = "map_value" ->
            IF j.t = "obj" THEN Yes(JObj(LastOfKey(j.kids))) ELSE No
      [] ty[1] = "factions" ->
            IF j.t = "str" /\ j.s \in FactionNames THEN Yes(j)
            ELSE IF j.t = "obj" /\ Len(j.kids) = 1 /\ j.kids[1][2].t = "null"
                    /\ \E f \in Factions : FactionKey(f) = j.kids[1][1]
                 THEN LET f == CHOOSE g \in Factions : FactionKey(g) = j.kids[1][1]
                      IN  Yes(JStr(ToUppercase(FactionToString(f))))
            ELSE No
      [] ty[1] = "struct" ->
            IF j.t = "obj" THEN DecodeFromMap(ty[2], j.kids)
            ELSE IF j.t = "arr" /\ ~HasFlatten(ty[2]) THEN DecodeFromSeq(ty[2], j.kids)
            ELSE No

(***************************************************************************)
(* The envelope, ApiResponse<T>: an externally tagged enum whose variants  *)
(* are renamed "data" and "error".  serde_json reads it from an object of  *)
(* exactly one member, whose key names the variant and whose value is the  *)
(* variant's content.                                                      *)
(***************************************************************************)
NoResponse == [ok |-> FALSE, variant |-> "", v |-> JNull]

\* Decoding by shape alone, whichever variant's content the body matches.
UntaggedApiResponse(payload, body) ==
    IF DecodeT(TStruct(payload), body).ok
    THEN [ok |-> TRUE, variant |-> "Data", v |-> DecodeT(TStruct(payload), body).v]
    ELSE IF DecodeT(TStruct("ErrorResponse"), body).ok
    THEN [ok |-> TRUE, variant |-> "Error",
          v |-> DecodeT(TStruct("ErrorResponse"), body).v]
    ELSE NoResponse

\* The variant of a content that decoded.
Variant(name, content) ==
    IF content.ok THEN [ok |-> TRUE, variant |-> name, v |-> content.v] ELSE NoResponse

DecodeApiResponse(payload, body) ==
    IF body.t # "obj" \/ Len(body.kids) # 1 THEN NoResponse
    ELSE IF body.kids[1][1] = "data"
         THEN Variant("Data", DecodeT(TStruct(payload), body.kids[1][2]))
    ELSE IF body.kids[1][1] = "error"
         THEN Variant("Error", DecodeT(TStruct("ErrorResponse"), body.kids[1][2]))
    ELSE NoResponse

\* The value of a decoded struct's field.
Get(obj, name) == obj.kids[CHOOSE i \in 1..Len(obj.kids) : obj.kids[i][1] = name][2]

(***************************************************************************)
(* The config store, src/utils.rs.  The config file is absent, a           *)
(* directory, a file that is not UTF-8, or a file of characters.           *)
(***************************************************************************)
AbsentFile == [kind |-> "absent", content |-> <<>>]

Directory == [kind |-> "dir", content |-> <<>>]

BinaryFile == [kind |-> "binary", content |-> <<>>]

TextFile(chars) == [kind |-> "text", content |-> chars]

None == [some |-> FALSE, token |-> <<>>]

Some(config_data) == [some |-> TRUE, token |-> config_data.token]

ConfigData(token) == [token |-> token]

\* serde's field identifier of ConfigData: the key "token" is the field, any
\* other key is ignored.
FieldIdent(key) == IF key = <<"t", "o", "k", "e", "n">> THEN "token" ELSE "__ignore"

NameKeys(j) ==
    IF j.t = "obj"
    THEN JObj([i \in 1..Len(j.kids) |-> <<FieldIdent(j.kids[i][1]), j.kids[i][2]>>])
    ELSE j

\* serde_json::from_str::<ConfigData>(text).ok()
ConfigOf(decoded) ==
    IF decoded.ok THEN Some(ConfigData(Get(decoded.v, "token").s)) ELSE None

ConfigFromJson(parsed) ==
    IF parsed.ok THEN ConfigOf(DecodeT(TStruct("ConfigData"), NameKeys(parsed.v)))
    ELSE None

ConfigFromStr(text) == ConfigFromJson(ParseJson(text))

read_config_file(f) ==
    IF f.kind = "text" THEN ConfigFromStr(f.content) ELSE None

\* serde_json::to_writer_pretty of a ConfigData: two spaces of indent, one
\* member, no newline at the end.
ToPretty(config_data) ==
    <<"{", "LF", " ", " ", QUOTE, "t", "o", "k", "e", "n", QUOTE, ":", " ", QUOTE>>
        \o EscapeStr(config_data.token) \o <<QUOTE, "LF", "}">>

WriteAppends(config_data, f) ==
    {[ok |-> TRUE, file |-> TextFile(f.content \o ToPretty(config_data))]}

\* The outcomes of write_config_file: File::create fails and leaves the path
\* as it was (always so for a directory); or it truncates the file and the
\* write then completes, or fails after some of the text has been written.
write_config_file(config_data, f) ==
    LET text == ToPretty(config_data) IN
    {[ok |-> FALSE, file |-> f]}
    \cup (IF f.kind = "dir" THEN {}
          ELSE {[ok |-> TRUE, file |-> TextFile(text)]}
               \cup {[ok |-> FALSE, file |-> TextFile(SubSeq(text, 1, k))] :
                        k \in 0..(Len(text) - 1)})

(***************************************************************************)
(* The API client, src/api/client.rs.                                      *)
(***************************************************************************)
ROOT_URL ==
    <<"h", "t", "t", "p", "s", ":", "/", "/", "a", "p", "i", ".", "s", "p", "a",
      "c", "e", "t", "r", "a", "d", "e", "r", "s", ".", "i", "o", "/", "v", "2">>

AppJson ==
    <<"a", "p", "p", "l", "i", "c", "a", "t", "i", "o", "n", "/", "j", "s", "o", "n">>

\* RequestBuilder::bearer_auth: the header value "Bearer {token}".
BearerAuth(token) == <<"B", "e", "a", "r", "e", "r", " ">> \o token

\* http::HeaderValue takes every character but the control characters other
\* than the tab; a builder with a bad header sends nothing and send() fails.
HeaderValueOk(value) ==
    \A i \in 1..Len(value) : value[i] \notin (ControlChars \ {"TAB"})

BuilderOk(req) == \A h \in req.headers : HeaderValueOk(h[2])

getNoContentType(self, url) ==
    [method |-> "GET", url |-> url, body |-> {},
     headers |-> {<<"authorization", BearerAuth(self.token)>>}]

\* HttpClient::get: the request it builds.
get(self, url) ==
    [method |-> "GET", url |-> url, body |-> {},
     headers |-> {<<"authorization", BearerAuth(self.token)>>,
                  <<"content-type", AppJson>>}]

\* HttpClient::post: the request it builds.  It sets no Authorization header.
post(self, request_body, url) ==
    [method |-> "POST", url |-> url, body |-> request_body,
     headers |-> {<<"content-type", AppJson>>}]

\* What send() does with a built request: the requests that went out.
Sent(req) == IF BuilderOk(req) THEN <<req>> ELSE <<>>

\* The return values of the operations: Ok(v), Err(ApiError) and the abort of
\* a failed expect() or of an index out of range.
Ok(val) == [kind |-> "Ok", err |-> "", v |-> val]

Err(error, val) == [kind |-> "Err", err |-> error, v |-> val]

Panic == [kind |-> "Panic", err |-> "", v |-> JNull]

\* A server's answer to a request that went out: a transport failure, a body
\* that is JSON, or a body that is not.
NetworkError == [kind |-> "network", body |-> JNull]

Garbage == [kind |-> "garbage", body |-> JNull]

\* The transport fails while the body is being read, after send() returned.
Truncated == [kind |-> "truncated", body |-> JNull]

Body(json) == [kind |-> "body", body |-> json]

\* Response::json::<ApiResponse<T>>()
Json(payload, resp) ==
    IF resp.kind = "body" THEN DecodeApiResponse(payload, resp.body) ELSE NoResponse

\* str::split on a one-character pattern: the segments between the dashes.
RECURSIVE Split(_, _)
Split(str, sep) ==
    IF \A i \in 1..Len(str) : str[i] # sep THEN <<str>>
    ELSE LET k == CHOOSE i \in 1..Len(str) :
                     str[i] = sep /\ \A j \in 1..(i - 1) : str[j] # sep
         IN  <<SubSeq(str, 1, k - 1)>> \o Split(SubSeq(str, k + 1, Len(str)), sep)

RECURSIVE Join(_, _)
Join(segs, sep) ==
    IF segs = <<>> THEN <<>>
    ELSE IF Len(segs) = 1 THEN segs[1]
    ELSE segs[1] \o <<sep>> \o Join(Tail(segs), sep)

Chars_register == <<"/", "r", "e", "g", "i", "s", "t", "e", "r">>

Chars_my_agent == <<"/", "m", "y", "/", "a", "g", "e", "n", "t">>

Chars_systems == <<"/", "s", "y", "s", "t", "e", "m", "s", "/">>

Chars_waypoints == <<"/", "w", "a", "y", "p", "o", "i", "n", "t", "s", "/">>

\* The [0..=1] slice of the segments, joined by dashes.
SystemFirstSegment(waypoint) == Split(waypoint, "-")[1]

SystemOf(waypoint) == Join(SubSeq(Split(waypoint, "-"), 1, 2), "-")

WaypointUrl(waypoint) ==
    ROOT_URL \o Chars_systems \o SystemOf(waypoint) \o Chars_waypoints \o waypoint

\* The body of the registration request: the Debug text of a HashMap of two
\* entries, here the entries themselves (their order in the text is not fixed).
RegisterBody(agent_name, faction_name) ==
    {<<"symbol", agent_name>>,
     <<"faction", ToUppercase(FactionToString(faction_name))>>}

\* An outcome of an operation: what it returns, the config file after it, and
\* the requests it sent.
Outcome(ret, f, reqs) == [ret |-> ret, file |-> f, sent |-> reqs]

\* send(), map_err(Network)?, json() and expect() on a built request: the
\* envelope the call goes on with, or the outcome it ends with.
Expect(api_response, aborted) ==
    [done |-> ~api_response.ok, out |-> aborted, api_response |-> api_response]

Exchange(req, payload, resp, f) ==
    IF ~BuilderOk(req) \/ resp.kind = "network"
    THEN [done |-> TRUE, out |-> Outcome(Err("Network", JNull), f, Sent(req)),
          api_response |-> NoResponse]
    ELSE Expect(Json(payload, resp), Outcome(Panic, f, Sent(req)))

\* The match on the envelope of get_agent_data and get_waypoint_location_data.
MatchGet(x, f) ==
    IF x.done THEN {x.out}
    ELSE IF x.api_response.variant = "Data"
         THEN {Outcome(Ok(x.api_response.v), f, x.out.sent)}
    ELSE {Outcome(Err("BadRequest", x.api_response.v), f, x.out.sent)}

MatchRegisterNoWrite(x, f) ==
    IF x.done THEN {x.out}
    ELSE IF x.api_response.variant = "Data"
         THEN {Outcome(Ok(x.api_response.v), f, x.out.sent)}
    ELSE {Outcome(Err("BadRequest", x.api_response.v), f, x.out.sent)}

MatchRegisterUnwraps(x, f) ==
    IF x.done \/ x.api_response.variant # "Data" THEN {x.out}
    ELSE {Outcome(IF w.ok THEN Ok(x.api_response.v) ELSE Panic, w.file, x.out.sent) :
            w \in write_config_file(
                    ConfigData(Get(x.api_response.v, "token").s), f)}

\* The match on the envelope of register_new_agent: the Data arm writes the
\* config file, and aborts if the write fails.
MatchRegister(x, f) ==
    IF x.done THEN {x.out}
    ELSE IF x.api_response.variant = "Data"
         THEN {Outcome(IF w.ok THEN Ok(x.api_response.v) ELSE Panic, w.file, x.out.sent) :
                 w \in write_config_file(
                         ConfigData(Get(x.api_response.v, "token").s), f)}
    ELSE {Outcome(Err("BadRequest", x.api_response.v), f, x.out.sent)}

\* The config file created, and so emptied, before the request is sent.
register_creates_first(self, agent_name, faction_name, resp, f) ==
    MatchRegister(
        Exchange(post(self, RegisterBody(agent_name, faction_name),
                      ROOT_URL \o Chars_register),
                 "RegistrationData", resp,
                 IF f.kind = "dir" THEN f ELSE TextFile(<<>>)),
        IF f.kind = "dir" THEN f ELSE TextFile(<<>>))

register_new_agent(self, agent_name, faction_name, resp, f) ==
    MatchRegister(
        Exchange(post(self, RegisterBody(agent_name, faction_name),
                      ROOT_URL \o Chars_register),
                 "RegistrationData", resp, f),
        f)

get_waypoint_unchecked(self, waypoint, resp, f) ==
    MatchGet(Exchange(get(self, ROOT_URL \o Chars_systems \o Split(waypoint, "-")[1]
                                 \o Chars_waypoints \o waypoint),
                      "LocationData", resp, f), f)

get_agent_data(self, resp, f) ==
    MatchGet(Exchange(get(self, ROOT_URL \o Chars_my_agent), "AgentData", resp, f), f)

get_waypoint_location_data(self, waypoint, resp, f) ==
    IF Len(Split(waypoint, "-")) < 2 THEN {Outcome(Panic, f, <<>>)}
    ELSE MatchGet(Exchange(get(self, WaypointUrl(waypoint)), "LocationData", resp, f), f)

(***************************************************************************)
(* The bodies a server may answer with: well-formed payloads of each       *)
(* operation, error payloads, and bodies of other shapes.                  *)
(***************************************************************************)
Str1 == JStr(<<"s">>)

AgentJson ==
    JObj(<< <<"accountId", JStr(<<"a", "1">>)>>, <<"symbol", JStr(<<"T">>)>>,
            <<"headquarters", JStr(<<"X", "1">>)>>, <<"credits", JInt(150000)>> >>)

LocationMembers ==
    << <<"systemSymbol", Str1>>, <<"symbol", Str1>>, <<"type", Str1>>,
       <<"x", JInt(-3)>>, <<"y", JInt(7)>> >>

LocationJson == JObj(LocationMembers)

TraitJson ==
    JObj(<< <<"symbol", Str1>>, <<"name", Str1>>, <<"description", Str1>> >>)

LocationFullJson ==
    JObj(LocationMembers \o
         << <<"orbitals", JArr(<<JObj(<< <<"symbol", Str1>> >>)>>)>>,
            <<"traits", JArr(<<TraitJson>>)>>,
            <<"chart", JNull>>,
            <<"faction", JObj(<< <<"symbol", Str1>> >>)>>,
            <<"isUnderConstruction", JBool(FALSE)>> >>)

ComponentMembers ==
    << <<"symbol", Str1>>, <<"name", Str1>>, <<"description", Str1>>,
       <<"condition", JInt(100)>>,
       <<"requirements", JObj(<< <<"power", JInt(1)>>, <<"crew", JInt(2)>> >>)>> >>

ContractJson ==
    JObj(<< <<"id", Str1>>, <<"factionSymbol", Str1>>, <<"type", Str1>>,
            <<"terms",
              JObj(<< <<"deadline", Str1>>,
                      <<"payment", JObj(<< <<"onAccepted", JInt(1)>>,
                                           <<"onFulfilled", JInt(2)>> >>)>>,
                      <<"deliver",
                        JArr(<<JObj(<< <<"tradeSymbol", Str1>>,
                                       <<"destinationSymbol", Str1>>,
                                       <<"unitsRequired", JInt(5)>>,
                                       <<"unitsFulfilled", JInt(0)>> >>)>>)>> >>)>>,
            <<"accepted", JBool(FALSE)>>, <<"fulfilled", JBool(FALSE)>>,
            <<"expiration", Str1>> >>)

FactionJson ==
    JObj(<< <<"symbol", JStr(<<"A", "S", "T", "R", "O">>)>>, <<"name", Str1>>,
            <<"description", Str1>>, <<"headquarters", Str1>>,
            <<"traits", JArr(<<TraitJson>>)>> >>)

ShipJson ==
    JObj(<< <<"symbol", Str1>>,
            <<"nav", JObj(<< <<"systemSymbol", Str1>>, <<"waypointSymbol", Str1>>,
                             <<"route", JObj(<< <<"departure", LocationJson>>,
                                                <<"destination", LocationJson>> >>)>>,
                             <<"status", Str1>>, <<"flightMode", Str1>> >>)>>,
            <<"crew", JObj(<< <<"current", JInt(1)>>, <<"capacity", JInt(2)>>,
                              <<"required", JInt(1)>>, <<"rotation", Str1>>,
                              <<"morale", JInt(100)>>, <<"wages", JInt(0)>> >>)>>,
            <<"fuel", JObj(<< <<"current", JInt(1)>>, <<"capacity", JInt(2)>>,
                              <<"consumed", JObj(<< <<"amount", JInt(0)>>,
                                                    <<"timestamp", Str1>> >>)>> >>)>>,
            <<"frame", JObj(ComponentMembers \o
                            << <<"moduleSlots", JInt(1)>>, <<"mountingPoints", JInt(1)>>,
                               <<"fuelCapacity", JInt(1200)>> >>)>>,
            <<"reactor", JObj(ComponentMembers \o << <<"powerOutput", JInt(30)>> >>)>>,
            <<"engine", JObj(ComponentMembers \o << <<"speed", JInt(30)>> >>)>>,
            <<"modules", JArr(<<JObj(ComponentMembers \o << <<"capacity", JInt(30)>> >>),
                               JObj(ComponentMembers)>>)>>,
            <<"mounts", JArr(<<JObj(ComponentMembers \o << <<"strength", JInt(10)>> >>)>>)>>,
            <<"registration", JObj(<< <<"name", Str1>>,
                                      <<"factionSymbol", JStr(<<"V", "O", "I", "D">>)>>,
                                      <<"role", Str1>> >>)>>,
            <<"cargo", JObj(<< <<"capacity", JInt(60)>>, <<"units", JInt(1)>>,
                               <<"inventory",
                                 JArr(<<JObj(<< <<"symbol", Str1>>, <<"name", Str1>>,
                                                <<"description", Str1>>,
                                                <<"units", JInt(1)>> >>)>>)>> >>)>> >>)

RegistrationJson(token) ==
    JObj(<< <<"token", JStr(token)>>, <<"agent", AgentJson>>,
            <<"contract", ContractJson>>, <<"faction", FactionJson>>,
            <<"ship", ShipJson>> >>)

ErrorJson(message, code, data) ==
    JObj(<< <<"message", JStr(message)>>, <<"code", JInt(code)>>, <<"data", data>> >>)

ErrorJsons ==
    {ErrorJson(<<"t", "a", "k", "e", "n">>, 4001, JNull),
     ErrorJson(<<>>, -1, JObj(<< <<"symbol", JArr(<<Str1>>)>> >>)),
     JObj(<< <<"code", JInt(401)>>, <<"message", JStr(<<"n", "o">>)>> >>)}

Wrap(key, payload) == JObj(<< <<key, payload>> >>)

\* The tokens a server hands out in this model.
ServerTokens == {<<"t">>, <<QUOTE, BSL>>, <<"LF">>}

\* Bodies of neither envelope shape, whatever the operation.
OddBodies ==
    {JNull, JStr(<<"d", "a", "t", "a">>), JObj(<<>>), Wrap("data", JNull),
     Wrap("Data", AgentJson),
     Wrap("error", JObj(<< <<"message", Str1>> >>)),
     ErrorJson(<<"t", "a", "k", "e", "n">>, 4001, JNull),
     JObj(<< <<"data", AgentJson>>,
             <<"error", ErrorJson(<<"t", "a", "k", "e", "n">>, 4001, JNull)>> >>)}

ErrorBodies == {Wrap("error", e) : e \in ErrorJsons}

RegisterBodies ==
    {Wrap("data", RegistrationJson(tok)) : tok \in ServerTokens}
        \cup ErrorBodies \cup {RegistrationJson(<<"t">>), Wrap("data", AgentJson)}

AgentBodies ==
    {Wrap("data", AgentJson)} \cup ErrorBodies \cup {AgentJson, Wrap("data", LocationJson)}

LocationBodies ==
    {Wrap("data", LocationJson), Wrap("data", LocationFullJson)}
        \cup ErrorBodies \cup {LocationJson}

Responses(bodies) ==
    {NetworkError, Garbage, Truncated} \cup {Body(b) : b \in bodies}

(***************************************************************************)
(* The state.  file is the config file; client is the ApiClient the caller *)
(* holds, if any; last is the last call (its operation, its argument, the  *)
(* server's answer and what the call returned) and sent the requests that  *)
(* call sent.  An abort ends the process, and with it the client.          *)
(***************************************************************************)
NoClient == [exists |-> FALSE, token |-> <<>>]

Client(token) == [exists |-> TRUE, token |-> token]

NoAnswer == [kind |-> "none", body |-> JNull]

Call(op, arg, resp, ret) == [op |-> op, arg |-> arg, resp |-> resp, ret |-> ret]

NoCall == Call("none", <<>>, NoAnswer, Ok(JNull))

SeqsUpTo(S, n) == UNION {[1..k -> S] : k \in 0..n}

KeyToken == <<QUOTE, "t", "o", "k", "e", "n", QUOTE>>

\* The bounds of the model.
MaxTokenLen == 2

MaxFileLen == 2

MaxWaypointLen == 4

\* ApiClient::init: the client it returns, if any, and what it returns.
InitIgnoresNone(api_config_data) ==
    [client |-> Client(api_config_data.token), ret |-> Ok(JNull)]

InitFrom(api_config_data) ==
    IF ~api_config_data.some
    THEN [client |-> NoClient, ret |-> Err("MissingToken", JNull)]
    ELSE [client |-> Client(api_config_data.token), ret |-> Ok(JNull)]

init(f) == InitFrom(read_config_file(f))

\* ApiClient::new: the outcomes of its registration call, each with the
\* client new returns, if any.
newKeepsEmptyToken(agent_name, faction, resp, f) ==
    LET api_client == Client(<<>>) IN
    {[o |-> o,
      client |-> IF o.ret.kind = "Ok" THEN api_client ELSE NoClient] :
        o \in register_new_agent(api_client, agent_name, faction, resp, f)}

new(agent_name, faction, resp, f) ==
    LET api_client == Client(<<>>) IN
    {[o |-> o,
      client |-> IF o.ret.kind = "Ok"
                 THEN [api_client EXCEPT !.token = Get(o.ret.v, "token").s]
                 ELSE NoClient] :
        o \in register_new_agent(api_client, agent_name, faction, resp, f)}

\* The client taking up the token of a registration it made.
AfterCallTakesToken(ret) ==
    IF ret.kind = "Panic" THEN NoClient
    ELSE IF ret.kind = "Ok" /\ \E i \in 1..Len(ret.v.kids) : ret.v.kids[i][1] = "token"
         THEN Client(Get(ret.v, "token").s)
    ELSE client

AfterCall(ret) == IF ret.kind = "Panic" THEN NoClient ELSE client

\* The inputs of the calls.
AgentNames == {<<"T", "E", "S", "T">>}

CallFactions == {"Astro", "Void"}

Waypoint1 == <<"X", "1", "-", "D", "F", "5", "5", "-", "2", "0", "2", "5", "0", "Z">>

Waypoint2 == <<"A", "B", "-", "1", "2", "-", "C", "D", "-", "3", "4">>

CallWaypoints == {Waypoint1, <<"X", "1">>}

SpecFiles ==
    {AbsentFile, Directory, BinaryFile, TextFile(<<"{">>),
     TextFile(ToPretty(ConfigData(<<"o", "l", "d">>))),
     TextFile(<<"{">> \o KeyToken \o <<":", QUOTE, "\\", "n", QUOTE, "}">>)}

Init ==
    /\ file \in SpecFiles
    /\ client = NoClient
    /\ sent = <<>>
    /\ last = NoCall

ApiClientInit ==
    /\ ~client.exists
    /\ \E r \in {init(file)} :
          /\ client' = r.client
          /\ last' = Call("init", <<>>, NoAnswer, r.ret)
    /\ sent' = <<>>
    /\ UNCHANGED file

ApiClientNew ==
    /\ ~client.exists
    /\ \E agent_name \in AgentNames, faction \in CallFactions,
          resp \in Responses(RegisterBodies) :
          \E r \in new(agent_name, faction, resp, file) :
             /\ client' = r.client
             /\ file' = r.o.file
             /\ sent' = r.o.sent
             /\ last' = Call("new", agent_name, resp, r.o.ret)

RegisterNewAgent ==
    /\ client.exists
    /\ \E agent_name \in AgentNames, faction_name \in CallFactions,
          resp \in Responses(RegisterBodies) :
          \E o \in register_new_agent(client, agent_name, faction_name, resp, file) :
             /\ client' = AfterCall(o.ret)
             /\ file' = o.file
             /\ sent' = o.sent
             /\ last' = Call("register_new_agent", agent_name, resp, o.ret)

GetAgentData ==
    /\ client.exists
    /\ \E resp \in Responses(AgentBodies) :
          \E o \in get_agent_data(client, resp, file) :
             /\ client' = AfterCall(o.ret)
             /\ file' = o.file
             /\ sent' = o.sent
             /\ last' = Call("get_agent_data", <<>>, resp, o.ret)

GetWaypointLocationData(waypoints, responses) ==
    /\ client.exists
    /\ \E waypoint \in waypoints, resp \in responses :
          \E o \in get_waypoint_location_data(client, waypoint, resp, file) :
             /\ client' = AfterCall(o.ret)
             /\ file' = o.file
             /\ sent' = o.sent
             /\ last' = Call("get_waypoint_location_data", waypoint, resp, o.ret)

GetWaypoint == GetWaypointLocationData(CallWaypoints, Responses(LocationBodies))

\* The caller lets go of its client.
DropClient ==
    /\ client.exists
    /\ client' = NoClient
    /\ sent' = <<>>
    /\ last' = Call("drop", <<>>, NoAnswer, Ok(JNull))
    /\ UNCHANGED file

Next ==
    \/ ApiClientInit
    \/ ApiClientNew
    \/ RegisterNewAgent
    \/ GetAgentData
    \/ GetWaypoint
    \/ DropClient

Spec == Init /\ [][Next]_vars

(***************************************************************************)
(* The config store on its own: read_config_file and write_config_file on  *)
(* every short file and every short token.                                 *)
(***************************************************************************)
TokenChars == {QUOTE, BSL}

Tokens ==
    SeqsUpTo(TokenChars, MaxTokenLen)
        \cup {<<" ">>, <<"LF">>, <<"U0001">>, <<"TAB", "U00E9">>, <<"a", " ", "U00E9", QUOTE>>,
              <<"t", "o", "k", "e", "n">>}

FileChars == {"{", "}", "[", "]", QUOTE, "1"}

OddTexts ==
    {<<"{">> \o KeyToken \o <<":", QUOTE, "a", QUOTE, "}">>,
     <<" ", "{">> \o KeyToken \o <<":", QUOTE, QUOTE, "}", "LF">>,
     <<"{">> \o KeyToken \o <<":", QUOTE, "a", QUOTE, "}", "x">>,
     <<"{">> \o KeyToken \o <<":", QUOTE, "a", QUOTE, ",">> \o KeyToken
             \o <<":", QUOTE, "b", QUOTE, "}">>,
     <<"{">> \o KeyToken \o <<":", QUOTE, "a", QUOTE, ",", QUOTE, "x", QUOTE, ":",
               "[", "1", "e", "1", ",", "n", "u", "l", "l", "]", "}">>,
     <<"{">> \o KeyToken \o <<":", "1", "}">>,
     <<"{">> \o KeyToken \o <<":", "n", "u", "l", "l", "}">>,
     <<"{">> \o KeyToken \o <<":", QUOTE, BSL, "u", "0", "0", "e", "9", QUOTE, "}">>,
     <<"{">> \o KeyToken \o <<":", QUOTE, "LF", QUOTE, "}">>,
     <<"{">> \o KeyToken \o <<":", QUOTE, BSL, "x", QUOTE, "}">>,
     <<"{", QUOTE, "T", "o", "k", "e", "n", QUOTE, ":", QUOTE, "a", QUOTE, "}">>,
     <<"{", QUOTE, "x", QUOTE, ":", QUOTE, "a", QUOTE, "}">>,
     <<"[", QUOTE, "a", QUOTE, "]">>,
     <<"[", QUOTE, "a", QUOTE, ",", QUOTE, "b", QUOTE, "]">>,
     <<"[", "1", "]">>,
     <<QUOTE, "a", QUOTE>>,
     <<"n", "u", "l", "l">>}

ConfigFiles ==
    {AbsentFile, Directory, BinaryFile}
        \cup {TextFile(text) : text \in SeqsUpTo(FileChars, MaxFileLen) \cup OddTexts}

InitConfig ==
    /\ file \in ConfigFiles
    /\ client = NoClient
    /\ sent = <<>>
    /\ last = NoCall

OptionRet(opt) ==
    [kind |-> IF opt.some THEN "Some" ELSE "None", err |-> "", v |-> JStr(opt.token)]

ReadConfigFile ==
    /\ last' = Call("read_config_file", <<>>, NoAnswer, OptionRet(read_config_file(file)))
    /\ UNCHANGED <<file, client, sent>>

WriteConfigFile ==
    \E token \in Tokens :
       \E w \in write_config_file(ConfigData(token), file) :
          /\ file' = w.file
          /\ last' = Call("write_config_file", token, NoAnswer,
                          IF w.ok THEN Ok(JNull) ELSE Err("FileWrite", JNull))
          /\ UNCHANGED <<client, sent>>

NextConfig == ReadConfigFile \/ WriteConfigFile

SpecConfig == InitConfig /\ [][NextConfig]_vars

(***************************************************************************)
(* get_waypoint_location_data on every short waypoint.                     *)
(***************************************************************************)
WaypointChars == {"X", "1", "-"}

Waypoints ==
    SeqsUpTo(WaypointChars, MaxWaypointLen) \cup {Waypoint1, Waypoint2}

WaypointResponses ==
    {NetworkError, Body(Wrap("data", LocationJson)),
     Body(Wrap("error", ErrorJson(<<"n", "o">>, 404, JNull)))}

InitWaypoint ==
    /\ file = AbsentFile
    /\ client = Client(<<"t">>)
    /\ sent = <<>>
    /\ last = NoCall

GetAnyWaypoint == GetWaypointLocationData(Waypoints, WaypointResponses)

\* A new process takes the client up again after an abort.
Restart ==
    /\ ~client.exists
    /\ client' = Client(<<"t">>)
    /\ UNCHANGED <<file, sent, last>>

NextWaypoint == GetAnyWaypoint \/ Restart

SpecWaypoint == InitWaypoint /\ [][NextWaypoint]_vars

(***************************************************************************)
(* The envelope decoding on its own: every body against the payload type   *)
(* of every operation.                                                     *)
(***************************************************************************)
Payloads ==
    {AgentJson, LocationJson, LocationFullJson, RegistrationJson(<<"t">>),
     JObj(<< <<"accountId", Str1>>, <<"symbol", Str1>>, <<"headquarters", Str1>> >>),
     JObj(<< <<"accountId", Str1>>, <<"symbol", Str1>>, <<"headquarters", Str1>>,
             <<"credits", JFloat>> >>),
     JObj(<< <<"credits", JInt(1)>>, <<"accountId", Str1>>, <<"symbol", Str1>>,
             <<"headquarters", Str1>>, <<"extra", JNull>> >>),
     JObj(<< <<"accountId", Str1>>, <<"accountId", Str1>>, <<"symbol", Str1>>,
             <<"headquarters", Str1>>, <<"credits", JInt(1)>> >>),
     JArr(<<Str1, Str1, Str1, JInt(2)>>),
     JArr(<<Str1, Str1, Str1, JInt(2), JInt(3)>>),
     JArr(<<Str1, Str1, Str1, JInt(1), JInt(2)>>),
     JArr(<<Str1, JInt(4001), JNull>>),
     JObj(<< <<"systemSymbol", Str1>>, <<"symbol", Str1>>, <<"type", Str1>>,
             <<"coords", JObj(<< <<"x", JInt(1)>>, <<"y", JInt(2)>> >>)>> >>),
     JObj(LocationMembers \o << <<"chart", JObj(<< <<"a", JInt(1)>> >>)>> >>),
     JObj(<< <<"message", Str1>>, <<"code", JInt(1)>>, <<"data", JArr(<<>>)>> >>),
     JObj(<< <<"message", Str1>>, <<"code", Str1>> >>),
     JObj(<< <<"message", Str1>>, <<"code", JInt(1)>>, <<"accountId", Str1>>,
             <<"symbol", Str1>>, <<"headquarters", Str1>>, <<"credits", JInt(1)>> >>),
     JNull, Str1, JObj(<<>>)}
        \cup ErrorJsons

DecodeBodies ==
    Payloads
        \cup {Wrap(key, p) : key \in {"data", "error", "Data", "ERROR"}, p \in Payloads}
        \cup {JObj(<< <<"data", p>>, <<"error", e>> >>) : p \in Payloads, e \in ErrorJsons}
        \cup {JArr(<<Wrap("data", AgentJson)>>), JStr(<<"d", "a", "t", "a">>),
              JObj(<< <<"data", AgentJson>>, <<"data", AgentJson>> >>)}

PayloadTypes == {"RegistrationData", "AgentData", "LocationData"}

InitDecode ==
    /\ file = AbsentFile
    /\ client = NoClient
    /\ sent = <<>>
    /\ last = NoCall

\* Response::json::<ApiResponse<T>>() on a body, for the T of an operation; the
\* payload type is the call's argument.
DecodeBody ==
    \E payload \in PayloadTypes, body \in DecodeBodies :
       \E r \in {Json(payload, Body(body))} :
       /\ last' = Call("json", payload, Body(body),
                        [kind |-> IF r.ok THEN r.variant ELSE "Failed",
                         err |-> "", v |-> r.v])
       /\ UNCHANGED <<file, client, sent>>

NextDecode == DecodeBody

SpecDecode == InitDecode /\ [][NextDecode]_vars

(***************************************************************************)
(* The claims.                                                             *)
(***************************************************************************)
Registers == {"register_new_agent", "new"}

\* The answers that are a well-formed error envelope.
ErrorAnswers == {Body(b) : b \in ErrorBodies}

\* The content of an envelope: the value of its one member.
Content(resp) == resp.body.kids[1][2]

\* The answers that are a registration in the Data envelope.
DataAnswers == {Body(Wrap("data", RegistrationJson(tok))) : tok \in ServerTokens}

ServerToken(resp) == Get(Content(resp), "token").s

C1_Returned ==
    (last.op \in Registers /\ last.resp \in ErrorAnswers) =>
        /\ last.ret.kind = "Err"
        /\ last.ret.err = "BadRequest"
        /\ Get(last.ret.v, "message") = Get(Content(last.resp), "message")
        /\ Get(last.ret.v, "code") = Get(Content(last.resp), "code")

C1_Step ==
    (last'.op \in Registers /\ last'.resp \in ErrorAnswers) => file' = file

\* C1: a register_new_agent call that the server answers with a well-formed
\* error envelope returns Err(ApiError::BadRequest(e)), e carrying the message
\* and the code of the server's error payload, and leaves the config file as
\* it was.
C1_BadRequest == []C1_Returned /\ [][C1_Step]_vars

C1_Witness ==
    /\ last.op = "register_new_agent"
    /\ last.ret.err = "BadRequest"
    /\ Get(last.ret.v, "code").n = 4001
    /\ file.kind = "text"

\* C2: whenever register_new_agent returns Ok(registration_data), reading the
\* config file right after the return yields ConfigData whose token is
\* registration_data.token.
C2_TokenPersisted ==
    (last.op \in Registers /\ last.ret.kind = "Ok") =>
        read_config_file(file) = Some(ConfigData(Get(last.ret.v, "token").s))

C2_Witness ==
    /\ last.op = "register_new_agent"
    /\ last.ret.kind = "Ok"
    /\ Get(last.ret.v, "token").s = <<QUOTE, BSL>>
    /\ client.token # <<QUOTE, BSL>>

C3_State ==
    last.op = "new" =>
        /\ Len(sent) = 1
        /\ sent[1].method = "POST"
        /\ sent[1].url = ROOT_URL \o Chars_register
        /\ last.resp \in DataAnswers =>
              \/ /\ last.ret.kind = "Ok"
                 /\ client = Client(ServerToken(last.resp))
                 /\ read_config_file(file) = Some(ConfigData(client.token))
              \/ last.ret.kind = "Panic" /\ ~client.exists
        /\ last.ret.kind = "Ok" => last.resp \in DataAnswers
        /\ last.resp = NetworkError => last.ret = Err("Network", JNull)
        /\ last.resp \in ErrorAnswers =>
              /\ last.ret.kind = "Err" /\ last.ret.err = "BadRequest"
              /\ Get(last.ret.v, "message") = Get(Content(last.resp), "message")
              /\ Get(last.ret.v, "code") = Get(Content(last.resp), "code")
        /\ last.ret.kind = "Err" =>
              /\ ~client.exists
              /\ last.resp \in ErrorAnswers \cup {NetworkError}

\* C3: ApiClient::new makes exactly one registration call.  If the call
\* succeeds, the client returned holds the token the server returned, which
\* is also the token now in the config file; if it fails, new returns the
\* error of the registration call and no client.
C3_New == C3_State

C3_Witness ==
    /\ last.op = "new"
    /\ last.ret.kind = "Ok"
    /\ client.token = <<QUOTE, BSL>>

C4_State ==
    last.op = "init" =>
        /\ last.ret = Err("MissingToken", JNull) <=> ~read_config_file(file).some
        /\ last.ret.kind \in {"Ok", "Err"}
        /\ last.ret.kind = "Err" => ~client.exists
        /\ last.ret.kind = "Ok" =>
              client = Client(read_config_file(file).token)
        /\ sent = <<>>

C4_Step == last'.op = "init" => file' = file

\* C4: ApiClient::init returns Err(ApiError::MissingToken) exactly when
\* read_default_config_file returns None; otherwise it returns a client whose
\* token is the token stored in the config file.  Either way it sends no
\* request and leaves the config file as it was.
C4_Init == []C4_State /\ [][C4_Step]_vars

C4_Witness ==
    /\ last.op = "init"
    /\ last.ret.kind = "Ok"
    /\ client.token = <<QUOTE, BSL>>

C5_Step ==
    (/\ last.op = "write_config_file"
     /\ last.ret.kind = "Ok"
     /\ last'.op = "read_config_file") =>
        /\ last'.ret.kind = "Some"
        /\ last'.ret.v = JStr(last.arg)

C5_Replaced ==
    (last.op = "write_config_file" /\ last.ret.kind = "Ok") =>
        file = TextFile(ToPretty(ConfigData(last.arg)))

\* C5: for every token, a write_config_file(ConfigData{token}, path) that
\* succeeds, followed by read_config_file(path) with no write in between,
\* returns Some(ConfigData) equal to the value written, whatever the file held
\* before: the file holds the text of the new value alone.
C5_RoundTrip == []C5_Replaced /\ [][C5_Step]_vars

C5_Witness ==
    /\ last.op = "read_config_file"
    /\ last.ret.kind = "Some"
    /\ last.ret.v = JStr(<<"a", " ", "U00E9", QUOTE>>)

\* A JSON value that is an object with a member "token" whose value is a
\* string.
HasStringToken(j) ==
    /\ j.t = "obj"
    /\ \E i \in 1..Len(j.kids) :
          j.kids[i][1] = <<"t", "o", "k", "e", "n">> /\ j.kids[i][2].t = "str"

C6_None ==
    \/ file.kind # "text"
    \/ ~ParseJson(file.content).ok
    \/ ~HasStringToken(ParseJson(file.content).v)

C6_State ==
    last.op = "read_config_file" =>
        /\ last.ret.kind \in {"Some", "None"}
        /\ last.ret.kind = "None" <=> C6_None

C6_Step == last'.op = "read_config_file" => file' = file

\* C6 as claimed: read_config_file never fails; it returns None when the file
\* does not exist, cannot be read, is not valid JSON or is JSON without a
\* string "token" field, and Some(ConfigData) otherwise, and leaves the file
\* as it was.
C6_Original == []C6_State /\ [][C6_Step]_vars

\* The file holds JSON with no "token" field, and read_config_file returned
\* Some(ConfigData).
C6_Witness ==
    /\ last.op = "read_config_file"
    /\ file = TextFile(<<"[", QUOTE, "a", QUOTE, "]">>)
    /\ last.ret.kind = "Some"
    /\ last.ret.v = JStr(<<"a">>)

\* The positions of the dashes of a waypoint.
Dashes(waypoint) == {i \in 1..Len(waypoint) : waypoint[i] = "-"}

\* A waypoint up to its second dash, the whole of it when it has but one.
UpToSecondDash(waypoint) ==
    IF Cardinality(Dashes(waypoint)) < 2 THEN waypoint
    ELSE SubSeq(waypoint, 1,
                (CHOOSE i \in Dashes(waypoint) :
                    Cardinality({j \in Dashes(waypoint) : j < i}) = 1) - 1)

\* C7: for every waypoint with at least two dash-delimited segments,
\* get_waypoint_location_data takes as the system the first two segments
\* joined by "-", the later segments ignored, and requests the URL
\* {ROOT_URL}/systems/{system}/waypoints/{waypoint} with the whole waypoint.
C7_SystemUrl ==
    (last.op = "get_waypoint_location_data" /\ Dashes(last.arg) # {}) =>
        /\ Len(sent) = 1
        /\ sent[1].method = "GET"
        /\ sent[1].url = ROOT_URL \o Chars_systems \o UpToSecondDash(last.arg)
                            \o Chars_waypoints \o last.arg
        /\ last.arg = Waypoint1 => UpToSecondDash(last.arg) = <<"X", "1", "-", "D", "F", "5", "5">>
        /\ last.arg = Waypoint2 => UpToSecondDash(last.arg) = <<"A", "B", "-", "1", "2">>

C7_Witness ==
    /\ last.op = "get_waypoint_location_data"
    /\ last.arg = Waypoint2
    /\ last.ret.kind = "Ok"
    /\ Len(sent) = 1

\* C8: for every waypoint with fewer than two dash-delimited segments (no dash
\* in it, the empty string included), get_waypoint_location_data aborts on the
\* index out of range: it returns no ApiResult and sends no request.
C8_Abort ==
    (last.op = "get_waypoint_location_data" /\ Dashes(last.arg) = {}) =>
        /\ last.ret = Panic
        /\ sent = <<>>

C8_Witness ==
    /\ last.op = "get_waypoint_location_data"
    /\ last.arg = <<>>
    /\ last.ret = Panic

\* The body of the last decoding.
C9_Body == last.resp.body

C9_BareData == DecodeT(TStruct(last.arg), C9_Body)

C9_BareError == DecodeT(TStruct("ErrorResponse"), C9_Body)

\* C9 as claimed: a body of the operation's payload shape decodes to the Data
\* variant with the payload's fields, and a body of the shape
\* {"message", "code", "data"} decodes to the Error variant with that message
\* and code.
C9_Original ==
    last.op = "json" =>
        /\ C9_BareData.ok =>
              last.ret.kind = "Data" /\ last.ret.v = C9_BareData.v
        /\ (C9_BareError.ok /\ ~C9_BareData.ok) =>
              last.ret.kind = "Error" /\ last.ret.v = C9_BareError.v

\* The body is an object of the one member key.
C9_Tagged(key) ==
    /\ C9_Body.t = "obj"
    /\ Len(C9_Body.kids) = 1
    /\ C9_Body.kids[1][1] = key

C9_Content(struct) == DecodeT(TStruct(struct), C9_Body.kids[1][2])

\* C9, amended: the variant is selected by the one key of a wrapper object.
\* {"data": P} with P of the operation's payload shape decodes to Data with
\* P's fields; {"error": E} with E of the shape {"message", "code", "data"}
\* decodes to Error with that message and code; every other body, a bare
\* payload and a bare error object among them, fails to decode.
C9_Envelope ==
    last.op = "json" =>
        /\ last.ret.kind \in {"Data", "Error", "Failed"}
        /\ last.ret.kind = "Data" <=>
              (C9_Tagged("data") /\ C9_Content(last.arg).ok)
        /\ last.ret.kind = "Data" => last.ret.v = C9_Content(last.arg).v
        /\ last.ret.kind = "Error" <=>
              (C9_Tagged("error") /\ C9_Content("ErrorResponse").ok)
        /\ last.ret.kind = "Error" =>
              /\ last.ret.v = C9_Content("ErrorResponse").v
              /\ C9_Body.kids[1][2].t = "obj" =>
                    /\ Get(last.ret.v, "message") = Get(C9_Body.kids[1][2], "message")
                    /\ Get(last.ret.v, "code") = Get(C9_Body.kids[1][2], "code")
        /\ (C9_BareData.ok \/ C9_BareError.ok) => last.ret.kind = "Failed"

C9_Witness ==
    /\ last.op = "json"
    /\ last.arg = "LocationData"
    /\ last.resp = Body(Wrap("data", LocationFullJson))
    /\ last.ret.kind = "Data"
    /\ Get(last.ret.v, "traits") # JNull

HasHeader(req, name) == \E h \in req.headers : h[1] = name

C10_StepOriginal ==
    \A i \in 1..Len(sent') :
        /\ <<"content-type", AppJson>> \in sent'[i].headers
        /\ \E h \in sent'[i].headers : h[1] = "authorization"

\* C10 as claimed: every request the client sends, the POST of
\* register_new_agent included, carries Content-Type: application/json and a
\* bearer Authorization header.
C10_Original == [][C10_StepOriginal]_vars

C10_Step ==
    \A i \in 1..Len(sent') :
        /\ <<"content-type", AppJson>> \in sent'[i].headers
        /\ sent'[i].method \in {"GET", "POST"}
        /\ sent'[i].method = "GET" =>
              /\ <<"authorization", BearerAuth(client.token)>> \in sent'[i].headers
              /\ Cardinality(sent'[i].headers) = 2
        /\ sent'[i].method = "POST" =>
              /\ ~HasHeader(sent'[i], "authorization")
              /\ last'.op \in Registers

\* C10, amended: every request carries Content-Type: application/json; the
\* GETs of get_agent_data and get_waypoint_location_data also carry the bearer
\* Authorization header of the client's token; the POST of register_new_agent
\* carries no Authorization header.
C10_Headers == [][C10_Step]_vars

C10_Witness ==
    /\ last.op = "get_waypoint_location_data"
    /\ Len(sent) = 1
    /\ <<"authorization", BearerAuth(<<QUOTE, BSL>>)>> \in sent[1].headers

Operations == {"register_new_agent", "get_agent_data", "get_waypoint_location_data"}

\* The answers in which the transport fails: before the response arrives, or
\* while its body is being received.
TransportFailures == {NetworkError, Truncated}

C11_AtMostOne == last.op \in Operations \cup {"new"} => Len(sent) <= 1

C11_Propagated ==
    (last.op \in Operations /\ last.resp \in TransportFailures) =>
        last.ret = Err("Network", JNull)

C11_Step ==
    (last'.op \in Operations /\ last'.resp \in TransportFailures) => file' = file

\* C11: each call of register_new_agent, get_agent_data or
\* get_waypoint_location_data sends at most one request; when the request
\* fails at the transport level the call returns Err(ApiError::Network),
\* without a second request and without writing the config file.
C11_Original == [](C11_AtMostOne /\ C11_Propagated) /\ [][C11_Step]_vars

\* The part of C11 that the code keeps: at most one request a call, and no
\* write of the config file when the transport fails.
C11_NoRetryNoWrite == []C11_AtMostOne /\ [][C11_Step]_vars

\* The transport failed while the body was being received, after the one
\* request had gone out, and the call aborted.
C11_Witness ==
    /\ last.op = "get_agent_data"
    /\ last.resp = Truncated
    /\ Len(sent) = 1
    /\ last.ret = Panic

\* The answers to a registration that decode to the Data variant of
\* ApiResponse<RegistrationData>.
DataResponses ==
    {resp \in Responses(RegisterBodies) :
        resp.kind = "body" /\ Json("RegistrationData", resp).variant = "Data"}

DataResponse(resp) == resp \in DataResponses

C12_Step ==
    /\ file' # file => (last'.op \in Registers /\ DataResponse(last'.resp))
    /\ last'.op \in {"get_agent_data", "get_waypoint_location_data", "init"} =>
          file' = file
    /\ (/\ last'.op \in Registers
        /\ \/ last'.ret.kind = "Err"
           \/ last'.ret = Panic /\ ~DataResponse(last'.resp)) =>
          file' = file

\* C12: the config file is written only by a register_new_agent call that
\* received a Data response: get_agent_data, get_waypoint_location_data,
\* ApiClient::init and every register_new_agent call that ends in a Network
\* error, a business error or a decode failure leave the file as it was.
C12_OnlyRegisterWrites == [][C12_Step]_vars

\* A registration that ended in a business error after an earlier one had
\* stored its token: the file still holds that token.
C12_Witness ==
    /\ last.op = "register_new_agent"
    /\ last.ret.err = "BadRequest"
    /\ file = TextFile(ToPretty(ConfigData(<<"t">>)))
    /\ client.exists

C13_Step ==
    /\ (client.exists /\ client'.exists) => client'.token = client.token
    /\ (client.exists /\ last'.op \in Operations) =>
          \A i \in 1..Len(sent') :
              sent'[i].method = "GET" =>
                  <<"authorization", BearerAuth(client.token)>> \in sent'[i].headers

C13_Registered ==
    (last.op = "register_new_agent" /\ last.ret.kind = "Ok") =>
        /\ client.exists
        /\ read_config_file(file) = Some(ConfigData(Get(last.ret.v, "token").s))

\* C13: once ApiClient::init or ApiClient::new has returned a client, no
\* register_new_agent, get_agent_data or get_waypoint_location_data call on it
\* changes its token.  A successful register_new_agent on it stores the new
\* token in the config file and leaves the client's token as it was, and the
\* client's GET requests authenticate with that token.
C13_TokenFixed == []C13_Registered /\ [][C13_Step]_vars

\* A GET of a client whose token is no longer the one in the config file.
C13_Witness ==
    /\ last.op = "get_agent_data"
    /\ Len(sent) = 1
    /\ <<"authorization", BearerAuth(<<"o", "l", "d">>)>> \in sent[1].headers
    /\ client.token = <<"o", "l", "d">>
    /\ read_config_file(file) = Some(ConfigData(<<QUOTE, BSL>>))

====
